---- MODULE Spec2Model ----
(***************************************************************************)
(* Model of firmware_classifier.py: the disassembly parser, the canonical  *)
(* fingerprint, the feature database, the unique-feature extractor and the *)
(* classifier, driven in the order the repository's drivers call them      *)
(* (construct database, add_firmware*, save_database,                      *)
(* extract_unique_features, FirmwareClassifier(csv), classify_firmware).   *)
(*                                                                         *)
(* Python dicts whose iteration order can influence a result are kept as   *)
(* an order (a sequence of keys) plus a function; dicts and sets whose     *)
(* order only feeds a set or a commutative count are kept as functions and *)
(* sets.                                                                   *)
(***************************************************************************)
EXTENDS Integers, Sequences, FiniteSets, TLC

VARIABLES dbFile, projects, csv, unique_features, firmware_file, results, pc, err,
          project_features, listing, lineNo, scanner, parsed_features

\* The locals of one parse_assembly_file call: the text lines, the loop index
\* i, the scanner's locals, and the dict returned.
parserVars == <<listing, lineNo, scanner, parsed_features>>

vars == <<dbFile, projects, csv, unique_features, firmware_file, results, pc, err,
          project_features, listing, lineNo, scanner, parsed_features>>

(***************************************************************************)
(* Bounds and input alphabets                                              *)
(***************************************************************************)

\* Largest number of (project, version) records the database may hold.
MaxRecords == 3

\* The projects records are added for; the persisted database may hold a
\* third one, Rover.
ProjectNames == {"ArduCopter", "ArduPlane"}

VersionNames == {"v4.0", "v4.1"}

\* The projects get_project_features is asked about.
QueriedProjects == {"ArduCopter", "ArduPlane", "Rover"}

\* The empty dict / empty mapping.
EmptyMap == [k \in {} |-> k]

(***************************************************************************)
(* Listing lines.  A line is what the three regular expressions of         *)
(* parse_assembly_file make of it: a section header with its name, a label *)
(* with its address, an instruction with its address and its assembly      *)
(* token (the '.'-separated parts of the mnemonic field), or none of them. *)
(***************************************************************************)

SectionLine(name) == [kind |-> "section", name |-> name, addr |-> 0, asm |-> <<>>]

LabelLine(addr) == [kind |-> "label", name |-> "", addr |-> addr, asm |-> <<>>]

InstrLine(addr, asm) == [kind |-> "instr", name |-> "", addr |-> addr, asm |-> asm]

OtherLine == [kind |-> "other", name |-> "", addr |-> 0, asm |-> <<>>]

\* A file on disk: readable text (a sequence of lines) or one that open() fails on.
ReadableFile(lines) == [readable |-> TRUE, lines |-> lines]

UnreadableFile == [readable |-> FALSE, lines |-> <<>>]

(***************************************************************************)
(* Listing text.  A text line is one of                                    *)
(*   "Disassembly of section <name>:"           (header)                   *)
(*   "<name>"                                   (bare, e.g. ".text")       *)
(*   "<hex address> <symbol>:"                  (label)                    *)
(*   "<hex address>:" and whitespace-separated fields, the first of them   *)
(*   the instruction bytes                      (instr)                    *)
(* A field is the sequence of its '.'-separated parts (bl.w is <<"bl",     *)
(* "w">>), and one line uses one separator between its fields, a space or  *)
(* a tab.  The three patterns are modelled by what re.match does on such   *)
(* text.                                                                   *)
(***************************************************************************)

RawSection(name) ==
    [kind |-> "header", name |-> name, addr |-> 0, sep |-> "space", fields |-> <<>>]

RawBare(name) ==
    [kind |-> "bare", name |-> name, addr |-> 0, sep |-> "space", fields |-> <<>>]

RawLabel(addr) ==
    [kind |-> "label", name |-> "", addr |-> addr, sep |-> "space", fields |-> <<>>]

RawInstr(addr, sep, fields) ==
    [kind |-> "instr", name |-> "", addr |-> addr, sep |-> sep, fields |-> fields]

\* The words of the listings that are spelled with the characters 0-9a-f only.
HexWords == {"e3a00000", "eb000000", "e0800000", "e1a00000", "add", "b", "8"}

\* Whether [0-9a-f]+ matches the whole field.
IsHexField(field) == Len(field) = 1 /\ field[1] \in HexWords

\* section_pattern.match(line): 'Disassembly of section ([\w\.\-]+):'
section_pattern(raw) == raw.kind = "header"

\* label_pattern.match(line): '([0-9A-Fa-f]+)\s+<([^>]+)>:'
label_pattern(raw) == raw.kind = "label"

\* The number of fields the group (?P<opcode>[0-9a-f ]+) ends up with.  The
\* group is greedy: over tabs it stops after the bytes, over spaces it runs
\* on through every following field that is spelled in hex; it then gives
\* back its last field when nothing is left for \s+(?P<assembly>\S+).
OpcodeGroupFields(raw) ==
    LET n == Len(raw.fields)
        hexrun == Cardinality({k \in 1..n : \A j \in 1..k : IsHexField(raw.fields[j])})
        greedy == IF raw.sep = "tab" /\ hexrun > 1 THEN 1 ELSE hexrun
    IN  IF greedy = n THEN n - 1 ELSE greedy

\* instruction_pattern.match(line) succeeds.
instruction_pattern(raw) ==
    raw.kind = "instr" /\ OpcodeGroupFields(raw) >= 1

\* instruction_match.group('assembly'): the field after the opcode group.
AssemblyGroup(raw) == raw.fields[OpcodeGroupFields(raw) + 1]

\* What lines 74-103 make of one text line: the first pattern that matches,
\* tried in the order section, label, instruction.
MatchLine(raw) ==
    IF section_pattern(raw) THEN SectionLine(raw.name)
    ELSE IF label_pattern(raw) THEN LabelLine(raw.addr)
    ELSE IF instruction_pattern(raw) THEN InstrLine(raw.addr, AssemblyGroup(raw))
    ELSE OtherLine

\* The file holding the given text lines.
TextFile(raws) == ReadableFile([k \in 1..Len(raws) |-> MatchLine(raws[k])])

(***************************************************************************)
(* AssemblyParser                                                          *)
(***************************************************************************)

branch_ops == {"b", "bl", "bx", "blx", "bne", "beq", "bcs", "bcc", "bmi", "bpl",
               "bvs", "bvc", "bhi", "bls", "bge", "blt", "bgt", "ble", "bal"}

\* assembly.split('.')[0]
BaseOpcode(asm) == asm[1]

\* address - current_block_start if current_block_start else 0
OffsetFrom(address, current_block_start) ==
    IF current_block_start # 0 THEN address - current_block_start ELSE 0

\* The dict appended to current_block for one instruction line.
InstructionOf(line, current_block_start) ==
    LET opcode == BaseOpcode(line.asm)
    IN  [address |-> line.addr,
         opcode |-> opcode,
         op_offset |-> OffsetFrom(line.addr, current_block_start),
         branch_offset |-> IF opcode \in branch_ops
                           THEN OffsetFrom(line.addr, current_block_start)
                           ELSE 0]

\* The scanner's locals before the first line.
ScanInit ==
    [current_section |-> "None", code_blocks |-> <<>>,
     current_block |-> <<>>, current_block_start |-> 0]

\* One iteration of the while loop over the lines.
ScanLine(st, line) ==
    IF line.kind = "section"
    THEN [st EXCEPT !.current_section = line.name]
    ELSE IF st.current_section # ".text"
    THEN st
    ELSE IF line.kind = "label"
    THEN [st EXCEPT
            !.code_blocks = IF st.current_block # <<>>
                            THEN Append(@, [start_address |-> st.current_block_start,
                                            instructions |-> st.current_block])
                            ELSE @,
            !.current_block_start = line.addr,
            !.current_block = <<>>]
    ELSE IF line.kind = "instr"
    THEN [st EXCEPT !.current_block =
            Append(@, InstructionOf(line, st.current_block_start))]
    ELSE st

RECURSIVE ScanLines(_, _, _)
ScanLines(st, lines, i) ==
    IF i > Len(lines) THEN st ELSE ScanLines(ScanLine(st, lines[i]), lines, i + 1)

\* Mutant of FinalBlocks: the block left open at the end of input is dropped.
FinalBlocksNoClose(st) == st.code_blocks

\* The "add final block" step after the loop (lines 124-129).
FinalBlocks(st) ==
    IF st.current_block # <<>>
    THEN Append(st.code_blocks, [start_address |-> st.current_block_start,
                                 instructions |-> st.current_block])
    ELSE st.code_blocks

\* The code_blocks list after the loop and the "add final block" step.
CodeBlocks(lines) == FinalBlocks(ScanLines(ScanInit, lines, 1))

\* Lexicographic order of two feature vectors (Python list comparison).
VectorLess(a, b) ==
    \/ a[1] < b[1]
    \/ a[1] = b[1] /\ a[2] < b[2]
    \/ a[1] = b[1] /\ a[2] = b[2] /\ a[3] < b[3]

\* Insert v into the ascending list s, after the elements not greater than it.
InsertVector(s, v) ==
    LET k == Cardinality({i \in 1..Len(s) : ~VectorLess(v, s[i])})
    IN  SubSeq(s, 1, k) \o <<v>> \o SubSeq(s, k + 1, Len(s))

RECURSIVE SortedFrom(_, _, _)
SortedFrom(acc, s, i) ==
    IF i > Len(s) THEN acc ELSE SortedFrom(InsertVector(acc, s[i]), s, i + 1)

\* Mutant of SortVectors: the list is left in encounter order.
SortVectorsEncounterOrder(s) == s

\* sorted(vectors) / list.sort(): ascending.
SortVectors(s) == SortedFrom(<<>>, s, 1)

\* All feature vectors in block order, each with the opcode it belongs to.
RECURSIVE BlockVectors(_, _)
BlockVectors(code_blocks, block_idx) ==
    IF block_idx > Len(code_blocks)
    THEN <<>>
    ELSE LET ins == code_blocks[block_idx].instructions
         IN  [j \in 1..Len(ins) |->
                 [opcode |-> ins[j].opcode,
                  vector |-> <<ins[j].op_offset, block_idx - 1, ins[j].branch_offset>>]]
             \o BlockVectors(code_blocks, block_idx + 1)

\* The subsequence of feature vectors of one opcode, in encounter order.
RECURSIVE VectorsOf(_, _, _)
VectorsOf(tagged, opcode, i) ==
    IF i > Len(tagged)
    THEN <<>>
    ELSE (IF tagged[i].opcode = opcode THEN <<tagged[i].vector>> ELSE <<>>)
         \o VectorsOf(tagged, opcode, i + 1)

\* Lines 131-149: the features dict built from code_blocks, each list sorted.
FeaturesOf(code_blocks) ==
    LET tagged == BlockVectors(code_blocks, 1)
        opcodes == {tagged[i].opcode : i \in 1..Len(tagged)}
    IN  [opcode \in opcodes |-> SortVectors(VectorsOf(tagged, opcode, 1))]

\* parse_assembly_file: opcode -> sorted list of [op_offset, block_idx, branch_offset];
\* the empty dict for a file that cannot be read.
parse_assembly_file(file) ==
    IF ~file.readable
    THEN EmptyMap
    ELSE FeaturesOf(CodeBlocks(file.lines))

(***************************************************************************)
(* Fingerprint: sha256(json.dumps(sorted(vectors))).hexdigest()            *)
(***************************************************************************)

\* json.dumps of a list of integer triples: the numbers in order, three per
\* vector, so that two lists have the same text exactly when they are equal.
RECURSIVE JsonDumps(_)
JsonDumps(vectors) ==
    IF vectors = <<>> THEN <<>> ELSE Head(vectors) \o JsonDumps(Tail(vectors))

\* hashlib.sha256(text).hexdigest(), collision-free: the digest of a text is
\* a value that determines the text.
Sha256Hex(text) == [sha256 |-> text]

\* Lines 185-187 (and 286-288): sort, serialise, hash.
Fingerprint(vectors) == Sha256Hex(JsonDumps(SortVectors(vectors)))

(***************************************************************************)
(* FirmwareDatabase                                                        *)
(* projects is [order, data]: order is the key order of the dict           *)
(* self.projects and data maps each key to its value.  A value loaded from *)
(* the persisted file need not be a dict: kind is "dict" or "scalar" (any  *)
(* JSON value that is not an object).                                      *)
(***************************************************************************)

ProjectDict(versions) == [kind |-> "dict", versions |-> versions]

VersionDict(hashes) == [kind |-> "dict", hashes |-> hashes]

ScalarProject == [kind |-> "scalar", versions |-> EmptyMap]

ScalarVersion == [kind |-> "scalar", hashes |-> EmptyMap]

\* defaultdict(lambda: defaultdict(dict)) with no key.
EmptyProjects == [order |-> <<>>, data |-> EmptyMap]

Keys(db) == {db.order[i] : i \in 1..Len(db.order)}

\* The contents of the file at db_path.
MissingFile == [kind |-> "missing", content |-> EmptyProjects]

NotJsonFile == [kind |-> "not_json", content |-> EmptyProjects]

JsonScalarFile == [kind |-> "json_scalar", content |-> EmptyProjects]

JsonObjectFile(content) == [kind |-> "json_object", content |-> content]

\* A JSON array of [key, value] pairs, which dict() accepts like an object.
JsonPairsFile(content) == [kind |-> "json_pairs", content |-> content]

\* __init__ and load_database: the projects mapping after construction over file.
\* json.load raises on text that is not JSON, defaultdict(factory, data) raises
\* on a number; both are caught and leave the empty mapping of line 156.
load_database(file) ==
    IF file.kind \in {"json_object", "json_pairs"}
    THEN file.content
    ELSE EmptyProjects

\* save_database: json.dump(dict(self.projects)).
save_database(db) == JsonObjectFile(db)

\* Lines 182-188: opcode -> fingerprint.
feature_hashes(features) ==
    [opcode \in DOMAIN features |-> Fingerprint(features[opcode])]

\* Whether self.projects[project][version] = ... raises: the value stored
\* under project is not a mapping (TypeError, no item assignment).
AddRaises(db, project) ==
    project \in Keys(db) /\ db.data[project].kind # "dict"

\* Mutant of add_firmware: an existing record is updated with the new opcodes
\* instead of being replaced.
add_firmwareUpdate(db, project, version, features) ==
    LET new == feature_hashes(features)
        old == IF /\ project \in Keys(db)
                  /\ version \in DOMAIN db.data[project].versions
               THEN db.data[project].versions[version].hashes
               ELSE EmptyMap
        rec == [kind |-> "dict", hashes |-> new @@ old]
    IN  IF project \in Keys(db)
        THEN [db EXCEPT !.data[project].versions = (version :> rec) @@ @]
        ELSE [order |-> Append(db.order, project),
              data |-> (project :> [kind |-> "dict", versions |-> (version :> rec)])
                       @@ db.data]

\* add_firmware: the projects mapping after the call (when it does not raise).
add_firmware(db, project, version, features) ==
    LET rec == VersionDict(feature_hashes(features))
    IN  IF project \in Keys(db)
        THEN [db EXCEPT !.data[project].versions = (version :> rec) @@ @]
        ELSE [order |-> Append(db.order, project),
              data |-> (project :> ProjectDict(version :> rec)) @@ db.data]

\* Whether get_project_features raises: .values() of a non-dict project value or
\* .items() of a non-dict version value (AttributeError).
GetRaises(db, project) ==
    /\ project \in Keys(db)
    /\ \/ db.data[project].kind # "dict"
       \/ \E v \in DOMAIN db.data[project].versions :
              db.data[project].versions[v].kind # "dict"

\* get_project_features: opcode -> set of fingerprints across the versions.
get_project_features(db, project) ==
    IF project \notin Keys(db)
    THEN EmptyMap
    ELSE LET versions == db.data[project].versions
             opcodes == UNION {DOMAIN versions[v].hashes : v \in DOMAIN versions}
         IN  [opcode \in opcodes |->
                 {versions[v].hashes[opcode] :
                     v \in {w \in DOMAIN versions : opcode \in DOMAIN versions[w].hashes}}]

\* Mutant of ProjectsAfterGet: the lookup self.projects[project] is made
\* without the membership test, so the defaultdict creates the entry.
ProjectsAfterGetInserting(db, project) ==
    IF project \in Keys(db)
    THEN db
    ELSE [order |-> Append(db.order, project),
          data |-> (project :> ProjectDict(EmptyMap)) @@ db.data]

\* self.projects after get_project_features: the method tests membership with
\* "in" before it indexes, and assigns nothing.
ProjectsAfterGet(db, project) == db

\* Number of (project, version) entries held.
RECURSIVE CountRecords(_, _)
CountRecords(db, i) ==
    IF i > Len(db.order)
    THEN 0
    ELSE Cardinality(DOMAIN db.data[db.order[i]].versions) + CountRecords(db, i + 1)

(***************************************************************************)
(* UniqueFeatureExtractor                                                  *)
(* The CSV file is [exists, rows]: rows are the data rows after the header *)
(* in file order, each [Project, Opcode, Hash].                            *)
(***************************************************************************)

NoCsvFile == [exists |-> FALSE, rows |-> <<>>]

CsvFile(rows) == [exists |-> TRUE, rows |-> rows]

\* Mutant of OtherHashes: other_features[opcode] is assigned instead of
\* updated, so only the last other project holding the opcode counts.
OtherHashesLastProjectOnly(db, project, opcode) ==
    LET holders == {k \in 1..Len(db.order) :
                       /\ db.order[k] # project
                       /\ opcode \in DOMAIN get_project_features(db, db.order[k])}
    IN  IF holders = {}
        THEN {}
        ELSE get_project_features(
                 db, db.order[CHOOSE k \in holders : \A h \in holders : h <= k])[opcode]

\* other_features.get(opcode, set()): the fingerprints every other project
\* holds for opcode (lines 225-230, 235).
OtherHashes(db, project, opcode) ==
    UNION {get_project_features(db, other_project)[opcode] :
             other_project \in {q \in Keys(db) \ {project} :
                                  opcode \in DOMAIN get_project_features(db, q)}}

\* Mutant of UniqueHashes: the other projects' fingerprints are not subtracted.
UniqueHashesKeepShared(db, project, opcode) ==
    get_project_features(db, project)[opcode]

\* unique_hashes = project_hashes - other_hashes (line 236).
UniqueHashes(db, project, opcode) ==
    get_project_features(db, project)[opcode] \ OtherHashes(db, project, opcode)

\* The rows written for one project (lines 234-240), as a set.
ProjectRows(db, project) ==
    UNION {{[Project |-> project, Opcode |-> opcode, Hash |-> unique_hash] :
              unique_hash \in UniqueHashes(db, project, opcode)} :
           opcode \in DOMAIN get_project_features(db, project)}

\* The orders in which one project's rows can be written: opcode by opcode
\* (the loop of line 234), the opcodes in the dict's order and the fingerprints
\* of one opcode in the set's iteration order, neither of which the code fixes.
RowOrders(rows) ==
    LET n == Cardinality(rows)
    IN  {s \in [1..n -> rows] :
           /\ \A i, j \in 1..n : i # j => s[i] # s[j]
           /\ \A i, j, k \in 1..n :
                 (i < j /\ j < k /\ s[i].Opcode = s[k].Opcode)
                    => s[j].Opcode = s[i].Opcode}

\* The row sequences extract_unique_features can write for the projects
\* all_projects[i..] (the loop of line 218).
RECURSIVE CsvBodies(_, _)
CsvBodies(db, i) ==
    IF i > Len(db.order)
    THEN {<<>>}
    ELSE {mine \o rest : mine \in RowOrders(ProjectRows(db, db.order[i])),
                         rest \in CsvBodies(db, i + 1)}

\* Whether extract_unique_features raises: some get_project_features call does,
\* in the first pass of the loop (line 222 or 228), before any row is written.
ExtractRaises(db) == \E project \in Keys(db) : GetRaises(db, project)

(***************************************************************************)
(* FirmwareClassifier                                                      *)
(* unique_features is [order, data]: project -> opcode -> set of hashes,   *)
(* with the projects in the order of their first row.                      *)
(***************************************************************************)

EmptyTable == [order |-> <<>>, data |-> EmptyMap]

\* Mutant of LoadRow: a later row of an opcode overwrites the set instead of
\* adding to it.
LoadRowOverwrite(table, row) ==
    IF row.Project \notin Keys(table)
    THEN [order |-> Append(table.order, row.Project),
          data |-> (row.Project :> (row.Opcode :> {row.Hash})) @@ table.data]
    ELSE [table EXCEPT !.data[row.Project] = (row.Opcode :> {row.Hash}) @@ @]

\* self.unique_features[project][opcode].add(hash_value) (line 262).
LoadRow(table, row) ==
    IF row.Project \notin Keys(table)
    THEN [order |-> Append(table.order, row.Project),
          data |-> (row.Project :> (row.Opcode :> {row.Hash})) @@ table.data]
    ELSE IF row.Opcode \notin DOMAIN table.data[row.Project]
    THEN [table EXCEPT !.data[row.Project] = (row.Opcode :> {row.Hash}) @@ @]
    ELSE [table EXCEPT !.data[row.Project][row.Opcode] = @ \cup {row.Hash}]

RECURSIVE LoadRows(_, _, _)
LoadRows(table, rows, i) ==
    IF i > Len(rows) THEN table ELSE LoadRows(LoadRow(table, rows[i]), rows, i + 1)

\* __init__ and load_unique_features: a file that cannot be opened is caught
\* and leaves the empty table of line 250.
load_unique_features(csv_file) ==
    IF csv_file.exists THEN LoadRows(EmptyTable, csv_file.rows, 1) ELSE EmptyTable

\* Mutant of firmware_hashes: the vectors are serialised in descending order,
\* unlike add_firmware's.
firmware_hashesDescending(firmware_features) ==
    [opcode \in DOMAIN firmware_features |->
        LET sorted_vectors == SortVectors(firmware_features[opcode])
        IN  Sha256Hex(JsonDumps([i \in 1..Len(sorted_vectors) |->
                                    sorted_vectors[Len(sorted_vectors) + 1 - i]]))]

\* Lines 284-289: opcode -> fingerprint of the unknown firmware.
firmware_hashes(firmware_features) ==
    [opcode \in DOMAIN firmware_features |-> Fingerprint(firmware_features[opcode])]

\* Mutant of TotalFeatures: one per opcode instead of one per fingerprint.
TotalFeaturesPerOpcode(project_opcodes) == Cardinality(DOMAIN project_opcodes)

\* total_project_features: the sum of len(unique_hashes) over the opcodes (line 300).
RECURSIVE TotalFeatures(_)
TotalFeatures(project_opcodes) ==
    IF DOMAIN project_opcodes = {}
    THEN 0
    ELSE LET opcode == CHOOSE o \in DOMAIN project_opcodes : TRUE
         IN  Cardinality(project_opcodes[opcode])
             + TotalFeatures([o \in DOMAIN project_opcodes \ {opcode} |-> project_opcodes[o]])

\* matched_features: one per opcode whose firmware hash is in unique_hashes
\* (lines 302-305).
MatchedFeatures(project_opcodes, hashes) ==
    Cardinality({opcode \in DOMAIN project_opcodes :
                    /\ opcode \in DOMAIN hashes
                    /\ hashes[opcode] \in project_opcodes[opcode]})

RECURSIVE Gcd(_, _)
Gcd(a, b) == IF b = 0 THEN a ELSE Gcd(b, a % b)

\* matched / total as a float: two quotients of small integers are the same
\* float exactly when they are the same rational, kept here in lowest terms.
Quotient(matched, total) ==
    [num |-> matched \div Gcd(matched, total), den |-> total \div Gcd(matched, total)]

\* Mutant of Similarity: the quotient is taken the wrong way round.
SimilarityInverted(matched_features, total_project_features) ==
    IF matched_features > 0
    THEN Quotient(total_project_features, matched_features)
    ELSE [num |-> 0, den |-> 1]

\* Line 308.
Similarity(matched_features, total_project_features) ==
    IF total_project_features > 0
    THEN Quotient(matched_features, total_project_features)
    ELSE [num |-> 0, den |-> 1]

\* x < y for two similarities.
SimLess(x, y) == x.num * y.den < y.num * x.den

\* The tuple appended at line 309.
ResultOf(project, project_opcodes, hashes) ==
    LET matched_features == MatchedFeatures(project_opcodes, hashes)
        total_project_features == TotalFeatures(project_opcodes)
    IN  [project |-> project,
         similarity |-> Similarity(matched_features, total_project_features),
         matched |-> matched_features,
         total |-> total_project_features]

\* Mutant of InsertResult: r goes before the elements of equal similarity, as in
\* an ascending sort that is then reversed.
InsertResultBeforeEqual(s, r) ==
    LET k == Cardinality({i \in 1..Len(s) : SimLess(r.similarity, s[i].similarity)})
    IN  SubSeq(s, 1, k) \o <<r>> \o SubSeq(s, k + 1, Len(s))

\* Insert r into s (similarity non-increasing) after every element whose
\* similarity is not smaller: what a stable sort with reverse=True does.
InsertResult(s, r) ==
    LET k == Cardinality({i \in 1..Len(s) : ~SimLess(s[i].similarity, r.similarity)})
    IN  SubSeq(s, 1, k) \o <<r>> \o SubSeq(s, k + 1, Len(s))

RECURSIVE SortResultsFrom(_, _, _)
SortResultsFrom(acc, s, i) ==
    IF i > Len(s) THEN acc ELSE SortResultsFrom(InsertResult(acc, s[i]), s, i + 1)

\* results.sort(key=lambda x: x[1], reverse=True) (line 312).
SortResults(s) == SortResultsFrom(<<>>, s, 1)

\* The results list before sorting: one tuple per project of the table, in the
\* table's order (lines 294-309).
UnsortedResults(table, hashes) ==
    [i \in 1..Len(table.order) |->
        ResultOf(table.order[i], table.data[table.order[i]], hashes)]

\* Mutant of classify_firmware: no early return for an empty feature dict.
classify_firmwareNoEmptyCheck(table, file) ==
    SortResults(UnsortedResults(table, firmware_hashes(parse_assembly_file(file))))

\* classify_firmware.
classify_firmware(table, file) ==
    LET firmware_features == parse_assembly_file(file)
    IN  IF DOMAIN firmware_features = {}
        THEN <<>>
        ELSE SortResults(UnsortedResults(table, firmware_hashes(firmware_features)))

(***************************************************************************)
(* Inputs                                                                  *)
(***************************************************************************)

TextSection == SectionLine(".text")

DataSection == SectionLine(".data")

\* Sample listings ingested into the database.  The two Copter versions share
\* their mov occurrences and differ in bl; Plane shares Copter's mov.
CopterV40 ==
    ReadableFile(<<TextSection, LabelLine(8), InstrLine(12, <<"mov">>),
                   InstrLine(8, <<"mov">>), InstrLine(16, <<"bl">>)>>)

CopterV41 ==
    ReadableFile(<<TextSection, LabelLine(8), InstrLine(12, <<"mov">>),
                   InstrLine(8, <<"mov">>), InstrLine(20, <<"bl", "w">>)>>)

PlaneV40 ==
    ReadableFile(<<TextSection, LabelLine(8), InstrLine(12, <<"mov">>),
                   InstrLine(8, <<"mov">>), InstrLine(16, <<"bne">>)>>)

RoverV40 ==
    ReadableFile(<<TextSection, LabelLine(8), InstrLine(12, <<"mov">>),
                   LabelLine(16), InstrLine(20, <<"bl">>)>>)

Corpus == {CopterV40, CopterV41, PlaneV40, RoverV40}

\* Listings without a recognized instruction: no section header, a section
\* other than .text, a .text section with labels and other lines only.
NoTextHeader == ReadableFile(<<LabelLine(8), InstrLine(8, <<"mov">>)>>)

OnlyDataSection == ReadableFile(<<DataSection, LabelLine(8), InstrLine(8, <<"mov">>)>>)

NoInstructions == ReadableFile(<<TextSection, LabelLine(8), OtherLine>>)

\* The listings of quick_test.py, shortened: a bare ".text" line and
\* tab-separated instruction lines, no label; unknown_asm is the beginning of
\* arducopter_asm.
arducopter_asm ==
    <<RawBare(".text"),
      RawInstr(0, "tab", <<<<"e1a00000">>, <<"nop">>>>),
      RawInstr(4, "tab", <<<<"e3a00000">>, <<"mov">>, <<"r1">>>>),
      RawInstr(8, "tab", <<<<"eb000000">>, <<"bl">>, <<"8">>>>)>>

arduplane_asm ==
    <<RawBare(".text"),
      RawInstr(0, "tab", <<<<"e1a00000">>, <<"nop">>>>),
      RawInstr(4, "tab", <<<<"e3a00000">>, <<"mov">>, <<"r2">>>>),
      RawInstr(8, "tab", <<<<"e3a00000">>, <<"mov">>, <<"r3">>>>)>>

unknown_asm == SubSeq(arducopter_asm, 1, 3)

\* The files handed to classify_firmware.
UnknownFiles ==
    Corpus \cup {UnreadableFile, NoTextHeader, OnlyDataSection, NoInstructions,
                 TextFile(unknown_asm)}

\* The feature dicts handed to add_firmware: parsed listings, and the empty dict.
FeaturePool ==
    {parse_assembly_file(f) :
        f \in Corpus \cup {NoInstructions, TextFile(arducopter_asm), TextFile(arduplane_asm)}}

\* Contents of the persisted database the program may start over.
InitialFiles ==
    {MissingFile, NotJsonFile, JsonScalarFile,
     JsonObjectFile(EmptyProjects),
     JsonObjectFile([order |-> <<"ArduCopter">>, data |-> ("ArduCopter" :> ScalarProject)]),
     JsonPairsFile([order |-> <<"ArduCopter">>, data |-> ("ArduCopter" :> ScalarProject)]),
     JsonObjectFile([order |-> <<"ArduCopter">>,
                     data |-> ("ArduCopter" :> ProjectDict("v4.0" :> ScalarVersion))]),
     JsonObjectFile(add_firmware(EmptyProjects, "Rover", "v4.0",
                                 parse_assembly_file(RoverV40))),
     JsonObjectFile(add_firmware(EmptyProjects, "ArduCopter", "v4.0",
                                 parse_assembly_file(CopterV40)))}

(***************************************************************************)
(* State machine                                                           *)
(* pc is the driver's position: "ingest" (database constructed, records    *)
(* being added), "saved", "extracted", "loaded" (classifier constructed),  *)
(* "classified", or "aborted" once an exception has escaped a call.        *)
(***************************************************************************)

Init ==
    /\ dbFile \in InitialFiles
    /\ projects = load_database(dbFile)
    /\ csv = NoCsvFile
    /\ unique_features = EmptyTable
    /\ firmware_file = UnreadableFile
    /\ results = <<>>
    /\ pc = "ingest"
    /\ err = "none"
    /\ project_features = EmptyMap
    /\ listing = <<>>
    /\ lineNo = 0
    /\ scanner = ScanInit
    /\ parsed_features = EmptyMap

\* Whether (project, version) is a record of the database.
HasRecord(db, project, version) ==
    /\ project \in Keys(db)
    /\ version \in DOMAIN db.data[project].versions

AddFirmware(project, version, features) ==
    /\ pc = "ingest"
    /\ HasRecord(projects, project, version) \/ CountRecords(projects, 1) < MaxRecords
    /\ IF AddRaises(projects, project)
       THEN /\ err' = "TypeError"
            /\ pc' = "aborted"
            /\ UNCHANGED projects
       ELSE /\ projects' = add_firmware(projects, project, version, features)
            /\ UNCHANGED <<pc, err>>
    /\ UNCHANGED <<dbFile, csv, unique_features, firmware_file, results, project_features>>
    /\ UNCHANGED parserVars

\* A get_project_features call made by the driver itself (example.py), after
\* which it adds no more records.
GetProjectFeatures(project) ==
    /\ pc = "ingest"
    /\ IF GetRaises(projects, project)
       THEN /\ err' = "AttributeError"
            /\ pc' = "aborted"
            /\ UNCHANGED <<projects, project_features>>
       ELSE /\ project_features' = get_project_features(projects, project)
            /\ projects' = ProjectsAfterGet(projects, project)
            /\ pc' = "queried"
            /\ UNCHANGED err
    /\ UNCHANGED <<dbFile, csv, unique_features, firmware_file, results>>
    /\ UNCHANGED parserVars

SaveDatabase ==
    /\ pc = "ingest"
    /\ dbFile' = save_database(projects)
    /\ pc' = "saved"
    /\ UNCHANGED <<projects, csv, unique_features, firmware_file, results, err>>
    /\ UNCHANGED <<project_features, parserVars>>

ExtractUniqueFeatures ==
    /\ pc = "saved"
    /\ IF ExtractRaises(projects)
       THEN /\ csv' = CsvFile(<<>>)
            /\ err' = "AttributeError"
            /\ pc' = "aborted"
       ELSE /\ \E rows \in CsvBodies(projects, 1) : csv' = CsvFile(rows)
            /\ pc' = "extracted"
            /\ UNCHANGED err
    /\ UNCHANGED <<dbFile, projects, unique_features, firmware_file, results>>
    /\ UNCHANGED <<project_features, parserVars>>

LoadUniqueFeatures ==
    /\ pc = "extracted"
    /\ unique_features' = load_unique_features(csv)
    /\ pc' = "loaded"
    /\ UNCHANGED <<dbFile, projects, csv, firmware_file, results, err>>
    /\ UNCHANGED <<project_features, parserVars>>

ClassifyFirmware(file) ==
    /\ pc = "loaded"
    /\ firmware_file' = file
    /\ results' = classify_firmware(unique_features, file)
    /\ pc' = "classified"
    /\ UNCHANGED <<dbFile, projects, csv, unique_features, err>>
    /\ UNCHANGED <<project_features, parserVars>>

Next ==
    \/ \E project \in ProjectNames, version \in VersionNames, features \in FeaturePool :
          AddFirmware(project, version, features)
    \/ \E project \in QueriedProjects : GetProjectFeatures(project)
    \/ SaveDatabase
    \/ ExtractUniqueFeatures
    \/ LoadUniqueFeatures
    \/ \E file \in UnknownFiles : ClassifyFirmware(file)

Spec == Init /\ [][Next]_vars

(***************************************************************************)
(* One parse_assembly_file call, line by line.  pc is "scan" while the     *)
(* loop of lines 70-122 runs and "parsed" once the dict is returned.       *)
(***************************************************************************)

\* The longest listing parsed.
MaxLines == 4

MovLine == RawInstr(8, "tab", <<<<"e3a00000">>, <<"mov">>, <<"r0">>>>)

BlLine == RawInstr(12, "tab", <<<<"eb000000">>, <<"bl">>, <<"8">>>>)

BlwLine == RawInstr(16, "space", <<<<"eb000000">>, <<"bl", "w">>, <<"8">>>>)

AddLine == RawInstr(20, "space", <<<<"e0800000">>, <<"add">>, <<"r0">>>>)

\* The text lines listings are made of.
RawAlphabet ==
    {RawSection(".text"), RawSection(".data"), RawLabel(0), RawLabel(4),
     MovLine, BlLine, BlwLine, AddLine}

\* A longer listing that leaves .text and enters it again: the bl and the
\* label at 0 stand under .data, the bl.w after the second header continues
\* the block opened at 4.
ReenterText ==
    <<RawSection(".text"), RawLabel(4), MovLine, RawSection(".data"), BlLine,
      RawLabel(0), RawSection(".text"), BlwLine>>

Listings == UNION {[1..n -> RawAlphabet] : n \in 1..MaxLines} \cup {ReenterText}

ParserInit ==
    /\ listing \in Listings
    /\ lineNo = 0
    /\ scanner = ScanInit
    /\ parsed_features = EmptyMap
    /\ pc = "scan"
    /\ err = "none"
    /\ dbFile = MissingFile
    /\ projects = EmptyProjects
    /\ csv = NoCsvFile
    /\ unique_features = EmptyTable
    /\ firmware_file = UnreadableFile
    /\ results = <<>>
    /\ project_features = EmptyMap

pipelineVars ==
    <<dbFile, projects, csv, unique_features, firmware_file, results, err, project_features>>

\* One iteration of the while loop (lines 70-122) on lines[i].
ScanStep ==
    /\ pc = "scan"
    /\ lineNo < Len(listing)
    /\ scanner' = ScanLine(scanner, MatchLine(listing[lineNo + 1]))
    /\ lineNo' = lineNo + 1
    /\ UNCHANGED <<listing, parsed_features, pc, pipelineVars>>

\* The loop has ended: final block, feature vectors, sort, return (lines 124-149).
FinishParse ==
    /\ pc = "scan"
    /\ lineNo = Len(listing)
    /\ parsed_features' = FeaturesOf(FinalBlocks(scanner))
    /\ pc' = "parsed"
    /\ UNCHANGED <<listing, lineNo, scanner, pipelineVars>>

ParserNext == ScanStep \/ FinishParse

ParserSpec == ParserInit /\ [][ParserNext]_vars

(***************************************************************************)
(* Properties                                                              *)
(***************************************************************************)

\* Once the driver has passed extraction the database no longer changes, so
\* the CSV file is the one extracted from projects.
Extracted == pc \in {"extracted", "loaded", "classified"} /\ csv.exists

\* The table in use was loaded from that CSV file.
TableLoaded == pc \in {"loaded", "classified"} /\ csv.exists

\* The set of fingerprints written for (project, opcode).
Written(project, opcode) ==
    {csv.rows[i].Hash : i \in {j \in 1..Len(csv.rows) :
                                  /\ csv.rows[j].Project = project
                                  /\ csv.rows[j].Opcode = opcode}}

\* get_project_features of every project of the database.
AllProjectFeatures ==
    [p \in Keys(projects) |-> get_project_features(projects, p)]

\* The set of fingerprints project holds for opcode across its versions
\* (empty when it holds none), read from pf = AllProjectFeatures.
HeldIn(pf, project, opcode) ==
    IF opcode \in DOMAIN pf[project] THEN pf[project][opcode] ELSE {}

Held(project, opcode) == HeldIn(AllProjectFeatures, project, opcode)

OpcodeNames == {"mov", "bl", "bne"}

\* C1: after add_firmware calls followed by extract_unique_features, the
\* fingerprints written for (P, O) are fingerprints of P for O and none of them
\* is a fingerprint of another project of the database for O.
C1_WrittenSubsetAndDisjoint ==
    (pc = "extracted" /\ csv.exists) =>
        LET pf == AllProjectFeatures
        IN  \A i \in 1..Len(csv.rows) :
                LET row == csv.rows[i]
                IN  /\ row.Project \in Keys(projects)
                    /\ row.Hash \in HeldIn(pf, row.Project, row.Opcode)
                    /\ \A other \in Keys(projects) \ {row.Project} :
                           row.Hash \notin HeldIn(pf, other, row.Opcode)

\* C1 witness: two projects share a fingerprint and rows have been written.
C1_Witness ==
    /\ pc = "extracted" /\ csv.exists
    /\ csv.rows # <<>>
    /\ \E p, q \in Keys(projects), o \in OpcodeNames :
          p # q /\ Held(p, o) \cap Held(q, o) # {}

\* C2: the table is exactly the per-opcode set difference: what is written for
\* (P, O) is P's fingerprints for O minus those of every other project, and the
\* loaded table has the opcode O under P exactly when that difference is
\* non-empty, with that difference as its set.
C2_TableIsSetDifference ==
    LET pf == AllProjectFeatures
        unique == [p \in Keys(projects), o \in OpcodeNames |->
                      {h \in HeldIn(pf, p, o) :
                          \A q \in Keys(projects) \ {p} : h \notin HeldIn(pf, q, o)}]
    IN  /\ (pc = "extracted" /\ csv.exists) =>
              \A p \in Keys(projects), o \in OpcodeNames : Written(p, o) = unique[p, o]
        /\ (pc = "loaded" /\ csv.exists) =>
              /\ Keys(unique_features) \subseteq Keys(projects)
              /\ \A p \in Keys(projects), o \in OpcodeNames :
                    LET present == /\ p \in Keys(unique_features)
                                   /\ o \in DOMAIN unique_features.data[p]
                    IN  /\ present <=> unique[p, o] # {}
                        /\ present => unique_features.data[p][o] = unique[p, o]

\* C2 witness: a loaded table in which one project keeps two fingerprints for
\* an opcode while a fingerprint it shares with another project is left out.
C2_Witness ==
    /\ pc = "loaded" /\ csv.exists
    /\ \E p \in Keys(unique_features), o \in OpcodeNames :
          /\ o \in DOMAIN unique_features.data[p]
          /\ Cardinality(unique_features.data[p][o]) = 2
    /\ \E p, q \in Keys(projects), o \in OpcodeNames :
          p # q /\ Held(p, o) \cap Held(q, o) # {}

\* C3: every result has 0 <= matched <= total and 0 <= similarity <= 1, and
\* its similarity is 0 exactly when matched = 0 or total = 0.
C3_SimilarityBounds ==
    \A i \in 1..Len(results) :
        LET r == results[i]
        IN  /\ 0 <= r.matched /\ r.matched <= r.total
            /\ r.similarity.den > 0
            /\ 0 <= r.similarity.num /\ r.similarity.num <= r.similarity.den
            /\ r.similarity.num = 0 <=> (r.matched = 0 \/ r.total = 0)

\* C3 witness: a result with some but not all of its fingerprints matched.
C3_Witness ==
    /\ pc = "classified"
    /\ \E i \in 1..Len(results) :
          0 < results[i].matched /\ results[i].matched < results[i].total

\* The fingerprints of the file last handed to classify_firmware.
UnknownHashes == firmware_hashes(parse_assembly_file(firmware_file))

\* The opcodes of project's table entry that a file with these hashes matches.
MatchedOpcodes(project, hashes) ==
    {o \in DOMAIN unique_features.data[project] :
        /\ o \in DOMAIN hashes
        /\ hashes[o] \in unique_features.data[project][o]}

\* The (opcode, fingerprint) pairs of project's table entry.
TableEntries(project) ==
    UNION {{<<o, h>> : h \in unique_features.data[project][o]} :
           o \in DOMAIN unique_features.data[project]}

\* project's only record was ingested from the listing now being classified.
SingleVersionFrom(project, file) ==
    /\ project \in Keys(projects)
    /\ projects.data[project].kind = "dict"
    /\ Cardinality(DOMAIN projects.data[project].versions) = 1
    /\ \A v \in DOMAIN projects.data[project].versions :
          projects.data[project].versions[v]
              = VersionDict(feature_hashes(parse_assembly_file(file)))

\* C4: a project ingested with exactly one version from listing L (whatever
\* else was ingested), extracted, then classified against a listing identical
\* to L, matches every opcode of its unique table, with similarity 1.0 when
\* that table is non-empty.
C4_SelfSimilarity ==
    (pc = "classified" /\ csv.exists) =>
        \A p \in Keys(projects) :
            (SingleVersionFrom(p, firmware_file) /\ p \in Keys(unique_features)) =>
                \E i \in 1..Len(results) :
                    /\ results[i].project = p
                    /\ results[i].matched = Cardinality(DOMAIN unique_features.data[p])
                    /\ results[i].similarity = [num |-> 1, den |-> 1]

\* C4 witness: such a project with an opcode in its table, in a database of three
\* projects, with one of which it shares a fingerprint.
C4_Witness ==
    /\ pc = "classified" /\ csv.exists
    /\ \E p \in Keys(unique_features), q \in Keys(projects), o \in OpcodeNames :
          /\ SingleVersionFrom(p, firmware_file)
          /\ DOMAIN unique_features.data[p] # {}
          /\ Cardinality(Keys(projects)) = 3
          /\ p # q /\ Held(p, o) \cap Held(q, o) # {}

\* C5 as claimed: the similarity of P is the number of matched opcodes of P's
\* table divided by the number of opcodes of P's table.
C5_SimilarityIsOpcodeFraction ==
    pc = "classified" =>
        LET hashes == UnknownHashes
        IN  \A i \in 1..Len(results) :
                LET p == results[i].project
                IN  results[i].similarity.num * Cardinality(DOMAIN unique_features.data[p])
                        = Cardinality(MatchedOpcodes(p, hashes)) * results[i].similarity.den

\* C5 as amended: the similarity of P is the number of matched opcodes of P's
\* table divided by the number of unique fingerprints of P's table (the sum
\* over its opcodes of the size of the unique set); that is the opcode fraction
\* when every opcode of P has exactly one unique fingerprint.
C5_SimilarityIsMatchedOverFingerprints ==
    pc = "classified" =>
        LET hashes == UnknownHashes
        IN  \A i \in 1..Len(results) :
                LET p == results[i].project
                    m == Cardinality(MatchedOpcodes(p, hashes))
                    t == Cardinality(TableEntries(p))
                    singletons == \A o \in DOMAIN unique_features.data[p] :
                                      Cardinality(unique_features.data[p][o]) = 1
                IN  /\ results[i].matched = m
                    /\ results[i].total = t
                    /\ results[i].similarity.num * t = m * results[i].similarity.den
                    /\ singletons =>
                           results[i].similarity.num
                                  * Cardinality(DOMAIN unique_features.data[p])
                               = m * results[i].similarity.den

\* C5 witness: a matched opcode of a project that has two unique fingerprints
\* for one opcode.
C5_Witness ==
    /\ pc = "classified"
    /\ \E i \in 1..Len(results) :
          /\ results[i].matched > 0
          /\ \E o \in DOMAIN unique_features.data[results[i].project] :
                Cardinality(unique_features.data[results[i].project][o]) = 2

\* C6 as claimed: after ingest and extraction, classifying a listing that
\* yields an opcode returns exactly one result for every project of the
\* database, a project without any unique fingerprint included, which has
\* total = 0 and similarity = 0.
C6_OneResultPerKnownProject ==
    (pc = "classified" /\ csv.exists /\ DOMAIN parse_assembly_file(firmware_file) # {}) =>
        \A p \in Keys(projects) :
            /\ Cardinality({i \in 1..Len(results) : results[i].project = p}) = 1
            /\ \A i \in 1..Len(results) :
                  (results[i].project = p /\ ProjectRows(projects, p) = {}) =>
                      results[i].total = 0 /\ results[i].similarity.num = 0

\* Position of project in the table's iteration order.
TablePosition(project) ==
    CHOOSE k \in 1..Len(unique_features.order) : unique_features.order[k] = project

\* C7: the results are in non-increasing order of similarity, and two results
\* of equal similarity are in the table's iteration order.
C7_SortedDescendingStable ==
    \A i, j \in 1..Len(results) :
        i < j =>
            /\ ~SimLess(results[i].similarity, results[j].similarity)
            /\ results[i].similarity = results[j].similarity =>
                   TablePosition(results[i].project) < TablePosition(results[j].project)

\* C7 witness: three results, the sort moved a later project to the front and
\* two results tie.
C7_Witness ==
    /\ pc = "classified"
    /\ Len(results) = 3
    /\ TablePosition(results[1].project) > 1
    /\ \E i, j \in 1..3 : i < j /\ results[i].similarity = results[j].similarity

\* Content that is not a JSON object of version -> (opcode -> fingerprint)
\* mappings: no JSON at all, a JSON value that is not an object, or an object
\* (here also an array of pairs) with a value of the wrong shape.
InvalidContent(file) ==
    \/ file.kind \in {"not_json", "json_scalar", "json_pairs"}
    \/ /\ file.kind = "json_object"
       /\ \E p \in Keys(file.content) :
             \/ file.content.data[p].kind # "dict"
             \/ \E v \in DOMAIN file.content.data[p].versions :
                    file.content.data[p].versions[v].kind # "dict"

\* C8 as claimed: a database constructed over invalid content holds no project,
\* and add_firmware and get_project_features then succeed for every project.
C8_InvalidFileYieldsEmptyUsableDatabase ==
    InvalidContent(dbFile) =>
        /\ load_database(dbFile) = EmptyProjects
        /\ err = "none"
        /\ \A p \in ProjectNames \cup Keys(projects) :
              ~AddRaises(projects, p) /\ ~GetRaises(projects, p)

\* Whether line i of lines is scanned while current_section is .text.
InText(lines, i) ==
    \E j \in 1..(i - 1) :
        /\ lines[j].kind = "section" /\ lines[j].name = ".text"
        /\ \A k \in (j + 1)..(i - 1) : lines[k].kind # "section"

\* A file without a recognized instruction: unreadable, or no instruction line
\* under a .text header.
ZeroRecognized(file) ==
    \/ ~file.readable
    \/ \A i \in 1..Len(file.lines) : file.lines[i].kind = "instr" => ~InText(file.lines, i)

\* C9: classify_firmware on a listing with zero recognized instructions returns
\* the empty list and raises nothing, whatever the table holds.
C9_EmptyListingGivesNoResults ==
    (pc = "classified" /\ ZeroRecognized(firmware_file)) =>
        results = <<>> /\ err = "none"

\* C9 witness: such a listing, readable and with a .text header, classified
\* against a table that holds projects.
C9_Witness ==
    /\ pc = "classified"
    /\ ZeroRecognized(firmware_file)
    /\ firmware_file.readable
    /\ \E i \in 1..Len(firmware_file.lines) : firmware_file.lines[i] = TextSection
    /\ unique_features.order # <<>>

\* C10: add_firmware on an existing (project, version) leaves that record with
\* exactly the opcodes of the new features, changes no other record and adds
\* none; a second call with the same arguments changes nothing.
C10_ReingestReplacesRecord ==
    pc = "ingest" =>
        \A p \in ProjectNames, v \in VersionNames, f \in FeaturePool :
            ~AddRaises(projects, p) =>
                LET after == add_firmware(projects, p, v, f)
                IN  /\ add_firmware(after, p, v, f) = after
                    /\ HasRecord(projects, p, v) =>
                          /\ DOMAIN after.data[p].versions[v].hashes = DOMAIN f
                          /\ after.order = projects.order
                          /\ \A q \in Keys(projects) :
                                /\ after.data[q].kind = projects.data[q].kind
                                /\ DOMAIN after.data[q].versions
                                      = DOMAIN projects.data[q].versions
                                /\ \A w \in DOMAIN projects.data[q].versions :
                                      (q # p \/ w # v) =>
                                          after.data[q].versions[w]
                                              = projects.data[q].versions[w]

\* The database file the C10 witness starts from: ArduCopter v4.0 with mov and bl.
CopterFile ==
    JsonObjectFile(add_firmware(EmptyProjects, "ArduCopter", "v4.0",
                                parse_assembly_file(CopterV40)))

\* C10 witness: the loaded record of ArduCopter v4.0 has been re-ingested from a
\* listing without bl, beside a second version and a second project.
C10_Witness ==
    /\ pc = "ingest"
    /\ dbFile = CopterFile
    /\ DOMAIN projects.data["ArduCopter"].versions = {"v4.0", "v4.1"}
    /\ "bl" \notin DOMAIN projects.data["ArduCopter"].versions["v4.0"].hashes
    /\ "mov" \in DOMAIN projects.data["ArduCopter"].versions["v4.0"].hashes
    /\ "ArduPlane" \in Keys(projects)

\* C11: get_project_features(P) returns, for every opcode appearing in any
\* version record of P, exactly the set of fingerprints stored for that opcode
\* across P's versions; for a project absent from the database it returns the
\* empty mapping, and in both cases the database is the one before the call
\* (no entry is created for P).  Stated for every database the driver can hold
\* while it adds records and every project whose stored value is a mapping.
C11_ProjectFeaturesAreStoredFingerprints ==
    pc = "ingest" =>
        \A P \in QueriedProjects :
            ~GetRaises(projects, P) =>
                LET returned == get_project_features(projects, P)
                    after == ProjectsAfterGet(projects, P)
                IN  /\ after = projects
                    /\ P \notin Keys(projects) =>
                          returned = EmptyMap /\ P \notin Keys(after)
                    /\ P \in Keys(projects) =>
                          LET versions == projects.data[P].versions
                          IN  /\ \A v \in DOMAIN versions :
                                     DOMAIN versions[v].hashes \subseteq DOMAIN returned
                              /\ \A opcode \in DOMAIN returned :
                                     /\ \A h \in returned[opcode] :
                                            \E v \in DOMAIN versions :
                                                /\ opcode \in DOMAIN versions[v].hashes
                                                /\ versions[v].hashes[opcode] = h
                                     /\ \A v \in DOMAIN versions :
                                            opcode \in DOMAIN versions[v].hashes
                                                => versions[v].hashes[opcode] \in returned[opcode]

\* C11 witness: the driver has asked for the features of a project with two
\* versions that differ in one opcode's fingerprint, in a database from which
\* another of the queried projects is absent.
C11_Witness ==
    /\ pc = "queried"
    /\ \E opcode \in DOMAIN project_features : Cardinality(project_features[opcode]) = 2
    /\ \E P \in Keys(projects) :
          /\ project_features = get_project_features(projects, P)
          /\ Cardinality(DOMAIN projects.data[P].versions) = 2
    /\ \E P \in QueriedProjects : P \notin Keys(projects)

(***************************************************************************)
(* Properties of the parser, read off the text lines of the listing        *)
(***************************************************************************)

\* What the patterns make of each line of the listing.
ListingLines == [k \in 1..Len(listing) |-> MatchLine(listing[k])]

\* Line k is scanned while current_section is .text.
Scanned(k) == InText(ListingLines, k)

\* The positions, in file order, of the instruction lines among the first n
\* lines that are scanned in .text.
TextInstrs(n) ==
    SelectSeq([k \in 1..n |-> k],
              LAMBDA k : ListingLines[k].kind = "instr" /\ Scanned(k))

\* The label lines before line k that are scanned in .text.
TextLabelsBefore(k) ==
    {j \in 1..(k - 1) : ListingLines[j].kind = "label" /\ Scanned(j)}

\* The position of the label whose block line k falls in; 0 when no label has
\* opened a block before line k.
EnclosingLabel(k) ==
    IF TextLabelsBefore(k) = {}
    THEN 0
    ELSE CHOOSE j \in TextLabelsBefore(k) : \A h \in TextLabelsBefore(k) : h <= j

\* The section name in force when line k is scanned.
SectionBefore(k) ==
    LET headers == {j \in 1..(k - 1) : ListingLines[j].kind = "section"}
    IN  IF headers = {}
        THEN "None"
        ELSE ListingLines[CHOOSE j \in headers : \A h \in headers : h <= j].name

\* The feature vectors recorded so far, in the order of their instructions,
\* each with its opcode key.
RecordedSoFar == BlockVectors(FinalBlocks(scanner), 1)

\* C12: permuting the instruction lines within a block (here: exchanging any
\* two instruction lines with nothing but instruction lines between them,
\* which generates every such permutation) changes neither the dict returned
\* by parse_assembly_file nor the fingerprints computed from it.
C12_PermutationInvariance ==
    pc = "parsed" =>
        \A a, b \in 1..Len(listing) :
            (a < b /\ \A k \in a..b : listing[k].kind = "instr") =>
                LET swapped == [listing EXCEPT ![a] = listing[b], ![b] = listing[a]]
                    other == parse_assembly_file(TextFile(swapped))
                IN  /\ other = parsed_features
                    /\ feature_hashes(other) = feature_hashes(parsed_features)

\* C12 witness: a parsed listing in which two bl instructions of one labelled
\* block stand in descending address order, so the sort reorders them.
C12_Witness ==
    /\ pc = "parsed"
    /\ \E a \in 1..(Len(listing) - 1) :
          /\ listing[a] = BlwLine /\ listing[a + 1] = BlLine
          /\ Scanned(a)
          /\ EnclosingLabel(a) # 0
    /\ "bl" \in DOMAIN parsed_features
    /\ Len(parsed_features["bl"]) = 2
    /\ parsed_features["bl"][1] # parsed_features["bl"][2]

\* C13: every instruction recorded inside a block opened by a label at address
\* S has op_offset = address - S, for every S including 0; an instruction
\* scanned before any label has op_offset = branch_offset = 0.
C13_OffsetIsAddressMinusBlockStart ==
    LET recorded == RecordedSoFar
        pos == TextInstrs(lineNo)
    IN  \A n \in 1..Len(pos) :
            n <= Len(recorded) =>
                LET k == pos[n]
                    j == EnclosingLabel(k)
                IN  IF j = 0
                    THEN recorded[n].vector[1] = 0 /\ recorded[n].vector[3] = 0
                    ELSE recorded[n].vector[1] = listing[k].addr - listing[j].addr

\* C14: the block index of a feature vector is the 0-based position of the
\* instruction's block among the blocks opened by label lines, every opened
\* block counted, also one that received no instruction.  Stated for listings
\* in which no instruction is scanned before the first label.
C14_BlockIndexCountsEveryOpenedBlock ==
    LET recorded == RecordedSoFar
        pos == TextInstrs(lineNo)
    IN  (\A n \in 1..Len(pos) : EnclosingLabel(pos[n]) # 0) =>
            \A n \in 1..Len(pos) :
                n <= Len(recorded) =>
                    recorded[n].vector[2] = Cardinality(TextLabelsBefore(pos[n])) - 1

\* C16: the opcode key of every instruction line scanned in .text is the
\* line's mnemonic field (the field after the bytes) truncated at the first
\* '.', whatever the mnemonic and whatever the separator.
C16_KeyIsMnemonicBeforeDot ==
    LET recorded == RecordedSoFar
        pos == TextInstrs(lineNo)
    IN  \A n \in 1..Len(pos) :
            n <= Len(recorded) =>
                recorded[n].opcode = listing[pos[n]].fields[2][1]

\* C17: the feature vectors correspond one-to-one to the instruction lines
\* scanned while current_section is .text.  While scanning, current_section
\* and current_block_start are set by the headers and by the labels scanned in
\* .text only, and the instructions held are as many as the instruction lines
\* scanned in .text; in the dict returned, each opcode key has as many vectors
\* as there are such lines with that key, and no other key is present.
C17_OneVectorPerTextInstruction ==
    LET recorded == RecordedSoFar
        pos == TextInstrs(lineNo)
        label == EnclosingLabel(lineNo + 1)
        KeyOf(k) == BaseOpcode(ListingLines[k].asm)
    IN  /\ scanner.current_section = SectionBefore(lineNo + 1)
        /\ scanner.current_block_start = IF label = 0 THEN 0 ELSE listing[label].addr
        /\ Len(recorded) = Len(pos)
        /\ \A n \in 1..Len(pos) : n <= Len(recorded) => recorded[n].opcode = KeyOf(pos[n])
        /\ pc = "parsed" =>
              /\ DOMAIN parsed_features = {KeyOf(pos[n]) : n \in 1..Len(pos)}
              /\ \A key \in DOMAIN parsed_features :
                    Len(parsed_features[key])
                        = Cardinality({n \in 1..Len(pos) : KeyOf(pos[n]) = key})

\* C17 witness: the listing that leaves .text and enters it again has been
\* parsed: two of its three instruction lines were scanned in .text, in one
\* block, and the label under .data opened none.
C17_Witness ==
    /\ pc = "parsed"
    /\ listing = ReenterText
    /\ Len(TextInstrs(Len(listing))) = 2
    /\ DOMAIN parsed_features = {"mov", "bl"}
    /\ scanner.current_block_start = 4
    /\ scanner.code_blocks = <<>>

(***************************************************************************)
(* Properties of the pipeline, continued                                   *)
(***************************************************************************)

\* The database quick_test.py builds: both projects ingested with what
\* parse_assembly_file returns for their listings.
TestDatabase ==
    add_firmware(
        add_firmware(EmptyProjects, "ArduCopter", "v4.0",
                     parse_assembly_file(TextFile(arducopter_asm))),
        "ArduPlane", "v4.0", parse_assembly_file(TextFile(arduplane_asm)))

\* C15: the full pipeline on listings written as in the test (a bare .text
\* line, instruction lines, no label), with an unknown listing that is the
\* beginning of ArduCopter's, returns a non-empty list whose first entry is
\* ArduCopter.
C15_TestListingsRankCopterFirst ==
    (/\ pc = "classified"
     /\ projects = TestDatabase
     /\ firmware_file = TextFile(unknown_asm)) =>
        /\ results # <<>>
        /\ results[1].project = "ArduCopter"

\* The additions of a record under a (project, version) pair the database
\* does not hold yet, made to a database extraction succeeds on.
NewRecords ==
    {add \in [Q : ProjectNames, version : VersionNames, features : FeaturePool] :
        /\ ~HasRecord(projects, add.Q, add.version)
        /\ ~AddRaises(projects, add.Q)
        /\ ~ExtractRaises(projects)}

\* C18: ingesting a record for a (Q, version) pair not yet in the database
\* never adds a fingerprint to the unique set of another project P: for every
\* opcode, P's unique set after the ingest is a subset of the one before.  The
\* unique sets are read off the rows extract_unique_features writes for P, a
\* row being (P, opcode, fingerprint).
C18_NewRecordAddsNoUniqueElsewhere ==
    pc = "ingest" =>
        LET before == [P \in Keys(projects) |-> ProjectRows(projects, P)]
        IN  \A add \in NewRecords :
                LET after == add_firmware(projects, add.Q, add.version, add.features)
                IN  \A P \in Keys(projects) \ {add.Q} :
                        ProjectRows(after, P) \subseteq before[P]

\* C18 witness: a database of two ingested projects to which a record can be
\* added that takes a fingerprint out of another project's unique set.
C18_Witness ==
    /\ pc = "ingest"
    /\ Cardinality(Keys(projects)) >= 2
    /\ \E add \in NewRecords :
          LET after == add_firmware(projects, add.Q, add.version, add.features)
          IN  \E P \in Keys(projects) \ {add.Q} :
                  /\ ProjectRows(after, P) # ProjectRows(projects, P)
                  /\ ProjectRows(after, P) \subseteq ProjectRows(projects, P)
====
